---- MODULE Spec2Model ----
(***************************************************************************)
(* Model of dug.core.async_search.Search: the query builders, the          *)
(* count/filter reconciliation done by search_concepts, the result         *)
(* reshaper _make_result, the scan loop of dump_concepts and the facade    *)
(* calls interleaving at the awaits on the search engine.                  *)
(*                                                                         *)
(* Python values are modelled as follows.                                  *)
(*   dict with string keys (query bodies)   a function on a set of strings *)
(*   dict whose insertion order is read     a sequence of <<key, value>>   *)
(*   list                                   a sequence                     *)
(*   str that is searched for characters    a sequence of 1-char strings   *)
(*   an argument that may be None           <<>> for None, <<v>> for v     *)
(***************************************************************************)
EXTENDS Integers, Sequences, FiniteSets, TLC

VARIABLES build, mr, pc, inp, heap, sent, resp, loc, result

facadeVars == <<pc, inp, heap, sent, resp, loc, result>>

vars == <<build, mr, facadeVars>>

-----------------------------------------------------------------------------
(* Bounds of the model *)

\* longest query text, in characters
MaxQueryLen == 2

\* longest hit sequence handed to _make_result
MaxHits == 3

\* longest document stream a scan delivers to dump_concepts
MaxDocs == 3

-----------------------------------------------------------------------------
(* Python dict and optional-value helpers *)

None == <<>>

Some(v) == <<v>>

\* d.update(e): keys of e override keys of d, the other keys of d stay
Update(d, e) ==
    [k \in DOMAIN d \cup DOMAIN e |-> IF k \in DOMAIN e THEN e[k] ELSE d[k]]

\* del d[k]
Del(d, k) == [j \in DOMAIN d \ {k} |-> d[j]]

\* d[k] = v
Set(d, k, v) == Update(d, k :> v)

\* ch in s, for a one-character ch
Contains(ch, s) == \E i \in 1..Len(s) : s[i] = ch

-----------------------------------------------------------------------------
(* Query Builder *)

\* a builder that skips the ranking clauses of an empty query text
ConceptsQuerySkipEmpty(query, fuzziness, prefix_length) ==
    [query |-> [bool |-> [
        filter |-> [bool |-> [must |-> <<
            [wildcard |-> [description |-> "?*"]],
            [wildcard |-> [name |-> "?*"]] >>]],
        should |-> IF query = <<>> THEN <<>>
                   ELSE << [match_phrase |->
                              [name |-> [query |-> query, boost |-> 10]]] >>,
        minimum_should_match |-> 1]]]

_get_concepts_query(query, fuzziness, prefix_length) ==
    [query |-> [bool |-> [
        filter |-> [bool |-> [must |-> <<
            [wildcard |-> [description |-> "?*"]],
            [wildcard |-> [name |-> "?*"]] >>]],
        should |-> <<
            [match_phrase |-> [name |-> [query |-> query, boost |-> 10]]],
            [match_phrase |-> [description |-> [query |-> query, boost |-> 6]]],
            [match_phrase |-> [search_terms |-> [query |-> query, boost |-> 8]]],
            [match |-> [name |-> [query |-> query, fuzziness |-> fuzziness,
                                  prefix_length |-> prefix_length,
                                  operator |-> "and", boost |-> 4]]],
            [match |-> [search_terms |-> [query |-> query, fuzziness |-> fuzziness,
                                  prefix_length |-> prefix_length,
                                  operator |-> "and", boost |-> 5]]],
            [match |-> [description |-> [query |-> query, fuzziness |-> fuzziness,
                                  prefix_length |-> prefix_length,
                                  operator |-> "and", boost |-> 3]]],
            [match |-> [description |-> [query |-> query, fuzziness |-> fuzziness,
                                  prefix_length |-> prefix_length, boost |-> 2]]],
            [match |-> [search_terms |-> [query |-> query, fuzziness |-> fuzziness,
                                  prefix_length |-> prefix_length, boost |-> 1]]],
            [match |-> [optional_terms |-> [query |-> query, fuzziness |-> fuzziness,
                                  prefix_length |-> prefix_length]]] >>,
        minimum_should_match |-> 1]]]

\* the should list of _get_var_query (lines 519-616)
VarShould(fuzziness, prefix_length, query) ==
    << [match_phrase |-> [element_name |-> [query |-> query, boost |-> 10]]],
       [match_phrase |-> [element_desc |-> [query |-> query, boost |-> 6]]],
       [match_phrase |-> [search_terms |-> [query |-> query, boost |-> 8]]],
       [match |-> [element_name |-> [query |-> query, fuzziness |-> fuzziness,
                             prefix_length |-> prefix_length,
                             operator |-> "and", boost |-> 4]]],
       [match |-> [search_terms |-> [query |-> query, fuzziness |-> fuzziness,
                             prefix_length |-> prefix_length,
                             operator |-> "and", boost |-> 5]]],
       [match |-> [element_desc |-> [query |-> query, fuzziness |-> fuzziness,
                             prefix_length |-> prefix_length,
                             operator |-> "and", boost |-> 3]]],
       [match |-> [element_desc |-> [query |-> query, fuzziness |-> fuzziness,
                             prefix_length |-> prefix_length, boost |-> 2]]],
       [match |-> [element_name |-> [query |-> query, fuzziness |-> fuzziness,
                             prefix_length |-> prefix_length, boost |-> 2]]],
       [match |-> [search_terms |-> [query |-> query, fuzziness |-> fuzziness,
                             prefix_length |-> prefix_length, boost |-> 1]]],
       [match |-> [optional_terms |-> [query |-> query, fuzziness |-> fuzziness,
                             prefix_length |-> prefix_length]]] >>

\* concept is a str; a non-empty one adds the must clause on identifiers
_get_var_query(concept, fuzziness, prefix_length, query) ==
    LET es_query == [query |-> [bool |->
                        [should |-> VarShould(fuzziness, prefix_length, query)]]]
    IN  IF concept # ""
        THEN [es_query EXCEPT !.query.bool =
                 Set(@, "must", [match |-> [identifiers |-> concept]])]
        ELSE es_query

get_simple_search_query(query) ==
    [query |-> [simple_query_string |-> [
        query |-> query,
        fields |-> <<"name", "description", "search_terms">>,
        default_operator |-> "and",
        flags |-> "OR|AND|NOT|PHRASE|PREFIX"]]]

\* the test without its last disjunct
HasOperatorSyntaxNoMinus(query) ==
    \/ Contains("*", query)
    \/ Contains("\"", query)
    \/ Contains("+", query)

\* the test of search_concepts line 225
HasOperatorSyntax(query) ==
    \/ Contains("*", query)
    \/ Contains("\"", query)
    \/ Contains("+", query)
    \/ Contains("-", query)

\* the post_filter of search_concepts lines 232-239, for a list of types
PostFilter(types) ==
    [bool |-> [should |-> [i \in 1..Len(types) |->
                             [term |-> [type |-> [value |-> types[i]]]]],
               minimum_should_match |-> 1]]

\* search_concepts lines 225-239: the body handed to es.search.
\* types is None or Some(list)
ConceptSearchBody(query, fuzziness, prefix_length, types) ==
    LET base == IF HasOperatorSyntax(query)
                THEN get_simple_search_query(query)
                ELSE _get_concepts_query(query, fuzziness, prefix_length)
        withAggs == Set(base, "aggs",
                        "type-count" :> [terms |-> [field |-> "type"]])
    IN  IF types # None
        THEN Set(withAggs, "post_filter", PostFilter(types[1]))
        ELSE withAggs

-----------------------------------------------------------------------------
(* Result Reshaper: _make_result.  new_results and each category's group   *)
(* map are insertion-ordered dicts: sequences of <<key, value>>.           *)

OHas(d, k) == \E i \in 1..Len(d) : d[i][1] = k

OIndex(d, k) == CHOOSE i \in 1..Len(d) : d[i][1] = k

OGet(d, k) == d[OIndex(d, k)][2]

\* d[k] = v: an existing key keeps its place, a new key goes last
OPut(d, k, v) ==
    IF OHas(d, k) THEN [d EXCEPT ![OIndex(d, k)] = <<k, v>>]
    ELSE Append(d, <<k, v>>)

\* list(d.values())
OValues(d) == [i \in 1..Len(d) |-> d[i][2]]

\* lines 348-353
ElemInfo(elem_s) ==
    [description |-> elem_s.element_desc,
     e_link |-> elem_s.element_action,
     id |-> elem_s.element_id,
     name |-> elem_s.element_name]

\* line 356, elem_info["score"]: round(elem['_score'], 6) is an annotated
\* target without a value: inside a function nothing is evaluated or stored
ScoreStatement(elem_info, elem) == elem_info

\* a reshaper that merges a hit whose element id the group already holds
AddToGroupsMerging(groups, elem_s, elem_info) ==
    LET coll_id == elem_s.collection_id
    IN  IF ~OHas(groups, coll_id)
        THEN OPut(groups, coll_id,
                  [c_id |-> coll_id,
                   c_link |-> elem_s.collection_action,
                   c_name |-> elem_s.collection_name,
                   elements |-> <<elem_info>>])
        ELSE IF \E k \in 1..Len(OGet(groups, coll_id).elements) :
                    OGet(groups, coll_id).elements[k].id = elem_info.id
        THEN groups
        ELSE OPut(groups, coll_id,
                  [OGet(groups, coll_id) EXCEPT
                      !.elements = Append(@, elem_info)])

\* lines 359-374: the group map of one category after one more hit
AddToGroups(groups, elem_s, elem_info) ==
    LET coll_id == elem_s.collection_id
    IN  IF ~OHas(groups, coll_id)
        THEN OPut(groups, coll_id,
                  [c_id |-> coll_id,
                   c_link |-> elem_s.collection_action,
                   c_name |-> elem_s.collection_name,
                   elements |-> <<elem_info>>])
        ELSE OPut(groups, coll_id,
                  [OGet(groups, coll_id) EXCEPT
                      !.elements = Append(@, elem_info)])

\* lines 341-374: one iteration of the loop over the hits
AddHit(new_results, elem, scored) ==
    LET elem_s == elem._source
        elem_type == elem_s.data_type
        withType == IF ~OHas(new_results, elem_type)
                    THEN OPut(new_results, elem_type, <<>>)
                    ELSE new_results
        elem_info == IF scored THEN ScoreStatement(ElemInfo(elem_s), elem)
                     ELSE ElemInfo(elem_s)
    IN  OPut(withType, elem_type,
             AddToGroups(OGet(withType, elem_type), elem_s, elem_info))

\* line 340: the loop, over search_results[1..n]
RECURSIVE GroupHits(_, _, _)
GroupHits(search_results, n, scored) ==
    IF n = 0 THEN <<>>
    ELSE AddHit(GroupHits(search_results, n - 1, scored),
                search_results[n], scored)

\* lines 376-377
Flatten(new_results) ==
    [i \in 1..Len(new_results) |->
        <<new_results[i][1], OValues(new_results[i][2])>>]

\* bool(data_type) for None or a str
Truthy(data_type) == data_type # None /\ data_type[1] # ""

\* a filter that leaves the grouped result alone when the category is absent
FilterCategoryKeepAbsent(new_results, data_type) ==
    IF Truthy(data_type) /\ OHas(new_results, data_type[1])
    THEN [type |-> "list", value |-> OGet(new_results, data_type[1])]
    ELSE [type |-> "dict", value |-> new_results]

\* lines 379-383: the value new_results is bound to after the category
\* filter, tagged with its Python type
FilterCategory(new_results, data_type) ==
    IF Truthy(data_type)
    THEN IF OHas(new_results, data_type[1])
         THEN [type |-> "list", value |-> OGet(new_results, data_type[1])]
         ELSE [type |-> "dict", value |-> <<>>]
    ELSE [type |-> "dict", value |-> new_results]

\* lines 385-386: a dict takes the key, a list has no update method
AttachTotal(filtered, total_items) ==
    IF filtered.type = "dict"
    THEN [raised |-> None,
          value |-> OPut(filtered.value, "total_items", total_items.count)]
    ELSE [raised |-> Some("AttributeError"), value |-> <<>>]

\* the outcome of a call: raised is None on a normal return, and then
\* value is the returned dict
_make_result(data_type, search_results, total_items, scored) ==
    IF search_results = <<>>
    THEN [raised |-> None,
          value |-> OPut(<<>>, "total_items", total_items.count)]
    ELSE AttachTotal(
            FilterCategory(
                Flatten(GroupHits(search_results, Len(search_results), scored)),
                data_type),
            total_items)

-----------------------------------------------------------------------------
(* Input domains *)

Chars == {"a", "*", "\"", "+", "-"}

RECURSIVE SeqsUpTo(_, _)
SeqsUpTo(S, n) ==
    IF n = 0 THEN {<<>>}
    ELSE LET shorter == SeqsUpTo(S, n - 1)
         IN  shorter \cup {Append(s, x) : s \in shorter, x \in S}

Queries == SeqsUpTo(Chars, MaxQueryLen)

FuzzinessValues == {0, 1, 2}

PrefixLengths == {0, 3}

Concepts == {"", "C1"}

TypeFilters == {None, Some(<<>>), Some(<<"disease">>),
                Some(<<"disease", "phenotype">>)}

DataTypes == {"phenotype", "dbGaP"}

CollectionIds == {"COLL1", "COLL2"}

\* two element records per collection; they differ in every field, also in
\* the collection name and link they carry
Variants == {1, 2}

\* _score in units of 10^-7
Hit(t, c, v) ==
    [_id |-> IF v = 1 THEN "e1" ELSE "e2",
     _source |-> [data_type |-> t,
                  collection_id |-> c,
                  collection_name |-> IF v = 1 THEN "study A" ELSE "study B",
                  collection_action |-> IF v = 1 THEN "link A" ELSE "link B",
                  element_id |-> IF v = 1 THEN "e1" ELSE "e2",
                  element_name |-> IF v = 1 THEN "name 1" ELSE "name 2",
                  element_desc |-> IF v = 1 THEN "desc 1" ELSE "desc 2",
                  element_action |-> IF v = 1 THEN "elink 1" ELSE "elink 2"],
     _score |-> IF v = 1 THEN 12345678 ELSE 5000000]

Hits == {Hit(t, c, v) : t \in DataTypes, c \in CollectionIds, v \in Variants}

DataTypeFilters == {None, Some(""), Some("phenotype"), Some("dbGaP"),
                    Some("genotype")}

Counts == {0, 2, 5}

-----------------------------------------------------------------------------
(* Builder runs: one builder applied to one drawn input *)

BuildIdle == [op |-> "idle"]

BuildConcepts ==
    /\ build.op = "idle"
    /\ UNCHANGED <<mr, facadeVars>>
    /\ \E q \in Queries, fz \in FuzzinessValues, pl \in PrefixLengths :
        build' = [op |-> "_get_concepts_query", query |-> q, fuzziness |-> fz,
                  prefix_length |-> pl,
                  body |-> _get_concepts_query(q, fz, pl)]

BuildVar ==
    /\ build.op = "idle"
    /\ UNCHANGED <<mr, facadeVars>>
    /\ \E q \in Queries, fz \in FuzzinessValues, pl \in PrefixLengths,
       c \in Concepts :
        build' = [op |-> "_get_var_query", query |-> q, fuzziness |-> fz,
                  prefix_length |-> pl, concept |-> c,
                  body |-> _get_var_query(c, fz, pl, q)]

BuildConceptSearch ==
    /\ build.op = "idle"
    /\ UNCHANGED <<mr, facadeVars>>
    /\ \E q \in Queries, fz \in FuzzinessValues, pl \in PrefixLengths,
       t \in TypeFilters :
        build' = [op |-> "search_concepts", query |-> q, fuzziness |-> fz,
                  prefix_length |-> pl, types |-> t,
                  body |-> ConceptSearchBody(q, fz, pl, t)]

-----------------------------------------------------------------------------
(* Reshaper runs: a hit buffer fills, then _make_result is applied to it *)

MrIdle == [phase |-> "collect", hits |-> <<>>]

\* search_vars_unscored lines 328-329 (and the hits of a search response)
HitArrives ==
    /\ mr.phase = "collect"
    /\ Len(mr.hits) < MaxHits
    /\ \E h \in Hits : mr' = [mr EXCEPT !.hits = Append(@, h)]
    /\ UNCHANGED <<build, facadeVars>>

\* lines 308 and 331
Reshape ==
    /\ mr.phase = "collect"
    /\ UNCHANGED <<build, facadeVars>>
    /\ \E dt \in DataTypeFilters, scored \in BOOLEAN, n \in Counts :
          mr' = [phase |-> "returned", hits |-> mr.hits, data_type |-> dt,
                 scored |-> scored, total_items |-> [count |-> n],
                 out |-> _make_result(dt, mr.hits, [count |-> n], scored)]

-----------------------------------------------------------------------------
(* Search Facade: the coroutines of Search, started on one instance and    *)
(* interleaving at their awaits.  The code between two awaits of a call    *)
(* runs without interruption; an await is a request handed to the engine   *)
(* and, in a later step, the engine's reply.                               *)

Calls == {1, 2}

\* every call has the same body object
SharedBody(c) == 1

\* the dict a call's builder or dict literal creates is a new object
FreshBody(c) == c

NoBody == [unset |-> TRUE]

CountRequest(index, body) ==
    [kind |-> "count", index |-> index, body |-> body]

SearchRequest(index, body, from_, size) ==
    [kind |-> "search", index |-> index, body |-> body,
     from_ |-> from_, size |-> size]

ScanRequest(index, body) ==
    [kind |-> "scan", index |-> index, body |-> body]

PingRequest == [kind |-> "ping"]

\* the normal return of a value, and the propagation of an exception
Return(value) == [raised |-> None, value |-> value]

Raise(exception) == [raised |-> Some(exception), value |-> <<>>]

Goto(c, label) == pc' = [pc EXCEPT ![c] = label]

Sends(c, request) == sent' = [sent EXCEPT ![c] = Append(@, request)]

Receives(c, key, reply) == resp' = [resp EXCEPT ![c] = Set(@, key, reply)]

Ends(c, out) ==
    /\ result' = [result EXCEPT ![c] = out]
    /\ Goto(c, IF out.raised = None THEN "returned" ELSE "raised")

\* a reconciliation that assigns the post_filter's bool to the filter
\* instead of updating the filter's bool with it
ReconcileReplacing(search_body) ==
    LET noAggs == Del(search_body, "aggs")
    IN  IF "post_filter" \in DOMAIN noAggs
        THEN IF "bool" \in DOMAIN noAggs.query
             THEN [raised |-> None,
                   body |-> Del([noAggs EXCEPT !.query.bool.filter.bool =
                                    noAggs.post_filter.bool],
                                "post_filter")]
             ELSE [raised |-> Some("KeyError"), body |-> noAggs]
        ELSE [raised |-> None, body |-> noAggs]

\* lines 250-257 on the dict search_body: the body for es.count, or the
\* KeyError of search_body["query"]["bool"] with the dict as it is left
ReconcileForCount(search_body) ==
    LET noAggs == Del(search_body, "aggs")
    IN  IF "post_filter" \in DOMAIN noAggs
        THEN IF "bool" \in DOMAIN noAggs.query
             THEN [raised |-> None,
                   body |-> Del([noAggs EXCEPT !.query.bool.filter.bool =
                                    Update(@, noAggs.post_filter.bool)],
                                "post_filter")]
             ELSE [raised |-> Some("KeyError"), body |-> noAggs]
        ELSE [raised |-> None, body |-> noAggs]

\* lines 267-270: bucket key -> doc_count, a later bucket of a key wins
ConceptTypes(buckets) ==
    [k \in {buckets[i].key : i \in 1..Len(buckets)} |->
        LET last == CHOOSE i \in 1..Len(buckets) :
                        /\ buckets[i].key = k
                        /\ \A j \in (i + 1)..Len(buckets) : buckets[j].key # k
        IN  buckets[last].doc_count]

\* the bucket list of aggregation name in a search reply is there to read
HasBuckets(search_results, name) ==
    /\ "aggregations" \in DOMAIN search_results
    /\ name \in DOMAIN search_results.aggregations
    /\ "buckets" \in DOMAIN search_results.aggregations[name]

\* a result that takes an absent type-count aggregation as no buckets
ConceptsResultDefaulting(search_results, total_items) ==
    Return(Update(
        Update(Del(search_results, "aggregations"),
               [total_items |-> total_items.count]),
        [concept_types |->
            IF HasBuckets(search_results, "type-count")
            THEN ConceptTypes(search_results.aggregations["type-count"].buckets)
            ELSE <<>>]))

\* lines 266-273: pop('aggregations'), ['type-count'] and ['buckets'] each
\* raise KeyError on an absent key
ConceptsResult(search_results, total_items) ==
    IF ~HasBuckets(search_results, "type-count") THEN Raise("KeyError")
    ELSE Return(Update(
            Update(Del(search_results, "aggregations"),
                   [total_items |-> total_items.count]),
            [concept_types |->
                ConceptTypes(search_results.aggregations["type-count"].buckets)]))

\* lines 395-412
KgBody(unique_id, query, fuzziness, prefix_length) ==
    [query |-> [bool |-> [must |-> <<
        [term |-> ("concept_id.keyword" :> unique_id)],
        [query_string |-> [query |-> query,
                           fuzziness |-> fuzziness,
                           fuzzy_prefix_length |-> prefix_length,
                           default_field |-> "search_targets"]] >>]]]

\* bool(x) for None or a str
Given(x) == x # None /\ x[1] # ""

\* lines 431-449
StudyBody(study_id, study_name) ==
    [query |-> [bool |-> [must |->
        (IF Given(study_id)
         THEN <<[match |-> [collection_id |-> study_id[1]]]>> ELSE <<>>)
        \o
        (IF Given(study_name)
         THEN <<[match |-> [collection_name |-> study_name[1]]]>> ELSE <<>>)]]]

\* lines 466-493
ProgramBody(program_name) ==
    [query |-> [bool |-> [must |->
        IF Given(program_name)
        THEN <<[match |-> [data_type |-> program_name[1]]]>> ELSE <<>>]],
     aggs |-> [unique_collection_ids |->
                 [terms |-> [field |-> "collection_id.keyword"]]],
     _source |-> <<"collection_id", "collection_name", "collection_action">>]

\* lines 65-68
DumpBody == [query |-> [match_all |-> <<>>]]

\* the test without its zero guard: counter == size
BreakAtSize(counter, size) ==
    /\ size # None
    /\ counter = size[1]

\* line 78: counter == size and size != 0, for size None or an int
BreakNow(counter, size) ==
    /\ size # None
    /\ counter = size[1]
    /\ size[1] # 0

\* lines 82-91
DumpResult(all_docs, total_items) ==
    [status |-> "success",
     result |-> [hits |-> [hits |-> all_docs], total_items |-> total_items],
     message |-> "Search result"]

-----------------------------------------------------------------------------
(* The engine's replies *)

FacadeQueries == {<<"a">>, <<"a", "-">>}

FacadeTypes == {None, Some(<<"disease">>)}

CountReplies == {[count |-> 0], [count |-> 2]}

TypeCountReply ==
    [hits |-> [hits |-> <<[_id |-> "c1", _score |-> 10000000]>>],
     aggregations |-> ("type-count" :>
        [buckets |-> <<[key |-> "disease", doc_count |-> 2],
                       [key |-> "phenotype", doc_count |-> 1]>>])]

\* replies to the search of search_concepts: with the type-count bucket,
\* with no aggregations at all, with aggregations that lack type-count,
\* with a type-count that has no buckets
ConceptSearchReplies ==
    {TypeCountReply,
     Del(TypeCountReply, "aggregations"),
     [TypeCountReply EXCEPT !.aggregations = [other |-> [buckets |-> <<>>]]],
     [TypeCountReply EXCEPT !.aggregations =
         ("type-count" :> [doc_count_error_upper_bound |-> 0])]}

\* replies to the search of search_variables: no hits key, or two hits
VariableSearchReplies ==
    {<<>>,
     [hits |-> [hits |-> <<Hit("phenotype", "COLL1", 1),
                           Hit("phenotype", "COLL1", 2)>>]]}

PlainSearchReplies == {<<>>, [hits |-> [hits |-> <<[_id |-> "k1"]>>]]}

CollectionIdsReply ==
    [hits |-> [hits |-> <<[_id |-> "v1"]>>],
     aggregations |-> [unique_collection_ids |->
                          [buckets |-> <<[key |-> "COLL1", doc_count |-> 1]>>]]]

\* replies to the search of search_program: with the unique_collection_ids
\* bucket, with no aggregations at all, with aggregations that lack it,
\* with a unique_collection_ids that has no buckets
ProgramSearchReplies ==
    {CollectionIdsReply,
     Del(CollectionIdsReply, "aggregations"),
     [CollectionIdsReply EXCEPT !.aggregations = [other |-> [buckets |-> <<>>]]],
     [CollectionIdsReply EXCEPT !.aggregations =
         [unique_collection_ids |-> [doc_count_error_upper_bound |-> 0]]]}

HitStreams == {<<>>, <<Hit("phenotype", "COLL1", 1), Hit("dbGaP", "COLL2", 2)>>}

DocStreams == {[i \in 1..n |-> [_id |-> i]] : n \in 0..MaxDocs}

DumpSizes == {None} \cup {Some(n) : n \in 0..MaxDocs}

IndexArguments == {None, Some("other_index")}

-----------------------------------------------------------------------------
(* search_concepts *)

\* lines 225-249: compile, add aggs and post_filter, await es.search
ConceptsStart(c) ==
    /\ pc[c] = "idle"
    /\ \E q \in FacadeQueries, t \in FacadeTypes :
        /\ inp' = [inp EXCEPT ![c] =
                     [op |-> "search_concepts", query |-> q, types |-> t,
                      offset |-> 0, size |-> None,
                      fuzziness |-> 1, prefix_length |-> 3]]
        /\ heap' = [heap EXCEPT ![FreshBody(c)] = ConceptSearchBody(q, 1, 3, t)]
    /\ loc' = [loc EXCEPT ![c] = [search_body |-> FreshBody(c)]]
    /\ Sends(c, SearchRequest(Some("concepts_index"), heap'[FreshBody(c)],
                              Some(0), None))
    /\ Goto(c, "concepts_search")
    /\ UNCHANGED <<build, mr, resp, result>>

\* lines 250-261: the search reply arrives; strip aggs, fold the post_filter
\* into the filter, await es.count
ConceptsSearchDone(c) ==
    /\ pc[c] = "concepts_search"
    /\ \E reply \in ConceptSearchReplies : Receives(c, "search", reply)
    /\ LET reconciled == ReconcileForCount(heap[loc[c].search_body])
       IN  /\ heap' = [heap EXCEPT ![loc[c].search_body] = reconciled.body]
           /\ IF reconciled.raised = None
              THEN /\ Sends(c, CountRequest(Some("concepts_index"),
                                            heap'[loc[c].search_body]))
                   /\ Goto(c, "concepts_count")
                   /\ UNCHANGED result
              ELSE /\ Ends(c, Raise(reconciled.raised[1]))
                   /\ UNCHANGED sent
    /\ UNCHANGED <<build, mr, inp, loc>>

\* lines 263-273: the count reply arrives; simplify the aggregations
ConceptsCountDone(c) ==
    /\ pc[c] = "concepts_count"
    /\ \E reply \in CountReplies :
        /\ Receives(c, "count", reply)
        /\ Ends(c, ConceptsResult(resp[c].search, reply))
    /\ UNCHANGED <<build, mr, inp, heap, sent, loc>>

-----------------------------------------------------------------------------
(* search_variables *)

\* lines 289-293
VariablesStart(c) ==
    /\ pc[c] = "idle"
    /\ \E concept \in Concepts, dt \in DataTypeFilters, index \in IndexArguments :
        /\ inp' = [inp EXCEPT ![c] =
                     [op |-> "search_variables", concept |-> concept,
                      query |-> <<>>, size |-> None, data_type |-> dt,
                      offset |-> 0, fuzziness |-> 1, prefix_length |-> 3,
                      index |-> index]]
        /\ heap' = [heap EXCEPT ![FreshBody(c)] =
                      _get_var_query(concept, 1, 3, <<>>)]
        /\ loc' = [loc EXCEPT ![c] =
                     [es_query |-> FreshBody(c),
                      index |-> IF index = None THEN "variables_index"
                                ELSE index[1]]]
    /\ Sends(c, CountRequest(Some(loc'[c].index), heap'[FreshBody(c)]))
    /\ Goto(c, "variables_count")
    /\ UNCHANGED <<build, mr, resp, result>>

\* lines 293-301
VariablesCountDone(c) ==
    /\ pc[c] = "variables_count"
    /\ \E reply \in CountReplies : Receives(c, "count", reply)
    /\ Sends(c, SearchRequest(Some("variables_index"), heap[loc[c].es_query],
                              Some(inp[c].offset), inp[c].size))
    /\ Goto(c, "variables_search")
    /\ UNCHANGED <<build, mr, inp, heap, loc, result>>

\* lines 303-308
VariablesSearchDone(c) ==
    /\ pc[c] = "variables_search"
    /\ \E reply \in VariableSearchReplies :
        /\ Receives(c, "search", reply)
        /\ LET search_result_hits ==
                   IF "hits" \in DOMAIN reply THEN reply.hits.hits ELSE <<>>
           IN  Ends(c, _make_result(inp[c].data_type, search_result_hits,
                                    resp[c].count, TRUE))
    /\ UNCHANGED <<build, mr, inp, heap, sent, loc>>

-----------------------------------------------------------------------------
(* search_vars_unscored *)

\* lines 325-326
UnscoredStart(c) ==
    /\ pc[c] = "idle"
    /\ \E concept \in Concepts, dt \in DataTypeFilters :
        /\ inp' = [inp EXCEPT ![c] =
                     [op |-> "search_vars_unscored", concept |-> concept,
                      query |-> <<>>, size |-> None, data_type |-> dt,
                      offset |-> 0, fuzziness |-> 1, prefix_length |-> 3]]
        /\ heap' = [heap EXCEPT ![FreshBody(c)] =
                      _get_var_query(concept, 1, 3, <<>>)]
    /\ loc' = [loc EXCEPT ![c] = [es_query |-> FreshBody(c)]]
    /\ Sends(c, CountRequest(Some("variables_index"), heap'[FreshBody(c)]))
    /\ Goto(c, "unscored_count")
    /\ UNCHANGED <<build, mr, resp, result>>

\* lines 326-328: the count reply arrives; the scan is opened, with no index
UnscoredCountDone(c) ==
    /\ pc[c] = "unscored_count"
    /\ \E reply \in CountReplies, stream \in HitStreams :
        resp' = [resp EXCEPT ![c] = Set(Set(@, "count", reply), "stream", stream)]
    /\ loc' = [loc EXCEPT ![c] = Set(@, "search_results", <<>>)]
    /\ Sends(c, ScanRequest(None, heap[loc[c].es_query]))
    /\ Goto(c, "unscored_scan")
    /\ UNCHANGED <<build, mr, inp, heap, result>>

\* lines 328-329: the scan yields its next hit
UnscoredScanNext(c) ==
    /\ pc[c] = "unscored_scan"
    /\ Len(loc[c].search_results) < Len(resp[c].stream)
    /\ loc' = [loc EXCEPT ![c].search_results =
                 Append(@, resp[c].stream[Len(@) + 1])]
    /\ UNCHANGED <<build, mr, pc, inp, heap, sent, resp, result>>

\* line 331: the scan is exhausted
UnscoredScanEnd(c) ==
    /\ pc[c] = "unscored_scan"
    /\ Len(loc[c].search_results) = Len(resp[c].stream)
    /\ Ends(c, _make_result(inp[c].data_type, loc[c].search_results,
                            resp[c].count, FALSE))
    /\ UNCHANGED <<build, mr, inp, heap, sent, resp, loc>>

-----------------------------------------------------------------------------
(* search_kg *)

\* lines 395-413
KgStart(c) ==
    /\ pc[c] = "idle"
    /\ \E unique_id \in {"ID1", "ID2"} :
        /\ inp' = [inp EXCEPT ![c] =
                     [op |-> "search_kg", unique_id |-> unique_id,
                      query |-> <<"a">>, offset |-> 0, size |-> None,
                      fuzziness |-> 1, prefix_length |-> 3]]
        /\ heap' = [heap EXCEPT ![FreshBody(c)] = KgBody(unique_id, <<"a">>, 1, 3)]
    /\ loc' = [loc EXCEPT ![c] = [body |-> FreshBody(c)]]
    /\ Sends(c, CountRequest(Some("kg_index"), heap'[FreshBody(c)]))
    /\ Goto(c, "kg_count")
    /\ UNCHANGED <<build, mr, resp, result>>

\* lines 413-421, and 450-457 of search_study
PlainCountDone(c, at, index, next) ==
    /\ pc[c] = at
    /\ \E reply \in CountReplies : Receives(c, "count", reply)
    /\ Sends(c, SearchRequest(Some(index), heap[loc[c].body],
                              Some(inp[c].offset), inp[c].size))
    /\ Goto(c, next)
    /\ UNCHANGED <<build, mr, inp, heap, loc, result>>

\* lines 422-423, and 458-459 of search_study
PlainSearchDone(c, at) ==
    /\ pc[c] = at
    /\ \E reply \in PlainSearchReplies :
        /\ Receives(c, "search", reply)
        /\ Ends(c, Return(Update(reply, [total_items |-> resp[c].count.count])))
    /\ UNCHANGED <<build, mr, inp, heap, sent, loc>>

\* a search_kg that returns on the count reply, without its search
KgReturnOnCount(c) ==
    /\ pc[c] = "kg_count"
    /\ \E reply \in CountReplies :
        /\ Receives(c, "count", reply)
        /\ Ends(c, Return([total_items |-> reply.count]))
    /\ UNCHANGED <<build, mr, inp, heap, sent, loc>>

KgCountDone(c) == PlainCountDone(c, "kg_count", "kg_index", "kg_search")

KgSearchDone(c) == PlainSearchDone(c, "kg_search")

-----------------------------------------------------------------------------
(* search_study *)

\* lines 431-450
StudyStart(c) ==
    /\ pc[c] = "idle"
    /\ \E study_id \in {None, Some("phs1")}, study_name \in {None, Some("")} :
        /\ inp' = [inp EXCEPT ![c] =
                     [op |-> "search_study", study_id |-> study_id,
                      study_name |-> study_name, offset |-> 0, size |-> None]]
        /\ heap' = [heap EXCEPT ![FreshBody(c)] = StudyBody(study_id, study_name)]
    /\ loc' = [loc EXCEPT ![c] = [body |-> FreshBody(c)]]
    /\ Sends(c, CountRequest(Some("variables_index"), heap'[FreshBody(c)]))
    /\ Goto(c, "study_count")
    /\ UNCHANGED <<build, mr, resp, result>>

StudyCountDone(c) ==
    PlainCountDone(c, "study_count", "variables_index", "study_search")

StudySearchDone(c) == PlainSearchDone(c, "study_search")

-----------------------------------------------------------------------------
(* search_program *)

\* lines 466-503
ProgramStart(c) ==
    /\ pc[c] = "idle"
    /\ \E program_name \in {None, Some("prog")} :
        /\ inp' = [inp EXCEPT ![c] =
                     [op |-> "search_program", program_name |-> program_name,
                      offset |-> 0, size |-> None]]
        /\ heap' = [heap EXCEPT ![FreshBody(c)] = ProgramBody(program_name)]
    /\ loc' = [loc EXCEPT ![c] = [body |-> FreshBody(c)]]
    /\ Sends(c, SearchRequest(Some("variables_index"), heap'[FreshBody(c)],
                              Some(0), None))
    /\ Goto(c, "program_search")
    /\ UNCHANGED <<build, mr, resp, result>>

\* lines 505-512: the buckets are read, then the reply is returned as it is
ProgramResult(search_results) ==
    IF ~HasBuckets(search_results, "unique_collection_ids")
    THEN Raise("KeyError")
    ELSE Return(search_results)

\* lines 497-512
ProgramSearchDone(c) ==
    /\ pc[c] = "program_search"
    /\ \E reply \in ProgramSearchReplies :
        /\ Receives(c, "search", reply)
        /\ Ends(c, ProgramResult(reply))
    /\ UNCHANGED <<build, mr, inp, heap, sent, loc>>

-----------------------------------------------------------------------------
(* dump_concepts *)

\* lines 65-69
DumpStart(c) ==
    /\ pc[c] = "idle"
    /\ \E size \in DumpSizes :
        inp' = [inp EXCEPT ![c] =
                  [op |-> "dump_concepts", index |-> "concepts_index",
                   size |-> size]]
    /\ heap' = [heap EXCEPT ![FreshBody(c)] = DumpBody]
    /\ loc' = [loc EXCEPT ![c] = [body |-> FreshBody(c)]]
    /\ Sends(c, PingRequest)
    /\ Goto(c, "dump_ping")
    /\ UNCHANGED <<build, mr, resp, result>>

\* lines 69-70
DumpPingDone(c) ==
    /\ pc[c] = "dump_ping"
    /\ Sends(c, CountRequest(Some(inp[c].index), heap[loc[c].body]))
    /\ Goto(c, "dump_count")
    /\ UNCHANGED <<build, mr, inp, heap, resp, loc, result>>

\* lines 70-77: the count reply arrives; the scan is opened
DumpCountDone(c) ==
    /\ pc[c] = "dump_count"
    /\ \E reply \in CountReplies, stream \in DocStreams :
        resp' = [resp EXCEPT ![c] = Set(Set(@, "count", reply), "stream", stream)]
    /\ loc' = [loc EXCEPT ![c] =
                 Update(@, [counter |-> 0, all_docs |-> <<>>, scanned |-> 0])]
    /\ Sends(c, ScanRequest(Some(inp[c].index), heap[loc[c].body]))
    /\ Goto(c, "dump_scan")
    /\ UNCHANGED <<build, mr, inp, heap, result>>

\* lines 73-81: the scan yields its next document; break, or keep it
DumpScanNext(c) ==
    /\ pc[c] = "dump_scan"
    /\ loc[c].scanned < Len(resp[c].stream)
    /\ IF BreakNow(loc[c].counter, inp[c].size)
       THEN /\ Ends(c, Return(DumpResult(loc[c].all_docs, resp[c].count)))
            /\ UNCHANGED loc
       ELSE /\ loc' = [loc EXCEPT ![c] =
                         Update(@, [counter |-> @.counter + 1,
                                    all_docs |-> Append(@.all_docs,
                                        resp[c].stream[@.scanned + 1]),
                                    scanned |-> @.scanned + 1])]
            /\ UNCHANGED <<pc, result>>
    /\ UNCHANGED <<build, mr, inp, heap, sent, resp>>

\* lines 82-91: the scan is exhausted
DumpScanEnd(c) ==
    /\ pc[c] = "dump_scan"
    /\ loc[c].scanned = Len(resp[c].stream)
    /\ Ends(c, Return(DumpResult(loc[c].all_docs, resp[c].count)))
    /\ UNCHANGED <<build, mr, inp, heap, sent, resp, loc>>

-----------------------------------------------------------------------------
(* Specifications *)

FacadeInit ==
    /\ pc = [c \in Calls |-> "idle"]
    /\ inp = [c \in Calls |-> [op |-> "none"]]
    /\ heap = [c \in Calls |-> NoBody]
    /\ sent = [c \in Calls |-> <<>>]
    /\ resp = [c \in Calls |-> <<>>]
    /\ loc = [c \in Calls |-> <<>>]
    /\ result = [c \in Calls |-> <<>>]

Init == build = BuildIdle /\ mr = MrIdle /\ FacadeInit

BuildNext == BuildConcepts \/ BuildVar \/ BuildConceptSearch

SpecBuild == Init /\ [][BuildNext]_vars

ReshapeNext == HitArrives \/ Reshape

SpecReshape == Init /\ [][ReshapeNext]_vars

Next ==
    \E c \in Calls :
        \/ ConceptsStart(c) \/ ConceptsSearchDone(c) \/ ConceptsCountDone(c)
        \/ VariablesStart(c) \/ VariablesCountDone(c) \/ VariablesSearchDone(c)
        \/ UnscoredStart(c) \/ UnscoredCountDone(c)
        \/ UnscoredScanNext(c) \/ UnscoredScanEnd(c)
        \/ KgStart(c) \/ KgCountDone(c) \/ KgSearchDone(c)
        \/ StudyStart(c) \/ StudyCountDone(c) \/ StudySearchDone(c)
        \/ ProgramStart(c) \/ ProgramSearchDone(c)
        \/ DumpStart(c) \/ DumpPingDone(c) \/ DumpCountDone(c)
        \/ DumpScanNext(c) \/ DumpScanEnd(c)

Spec == Init /\ [][Next]_vars

-----------------------------------------------------------------------------
(* Reading a should-clause: its match mode, field and boost *)

ClauseKey(c) == CHOOSE k \in DOMAIN c : TRUE

ClauseField(c) == CHOOSE f \in DOMAIN c[ClauseKey(c)] : TRUE

ClauseArgs(c) == c[ClauseKey(c)][ClauseField(c)]

ClauseMode(c) ==
    IF ClauseKey(c) = "match_phrase" THEN "phrase"
    ELSE IF "operator" \in DOMAIN ClauseArgs(c) THEN "fuzzy-" \o ClauseArgs(c).operator
    ELSE "fuzzy-or"

ClauseBoost(c) ==
    IF "boost" \in DOMAIN ClauseArgs(c) THEN Some(ClauseArgs(c).boost) ELSE None

ClauseShape(c) == <<ClauseMode(c), ClauseField(c), ClauseBoost(c)>>

Shapes(should) == [i \in 1..Len(should) |-> ClauseShape(should[i])]

\* every clause carries the call's query text, and every fuzzy clause its
\* fuzziness and prefix_length
CarriesInputs(should, b) ==
    \A i \in 1..Len(should) :
        /\ ClauseArgs(should[i]).query = b.query
        /\ ClauseMode(should[i]) # "phrase" =>
              /\ ClauseArgs(should[i]).fuzziness = b.fuzziness
              /\ ClauseArgs(should[i]).prefix_length = b.prefix_length

NineClauses(name, description) ==
    << <<"phrase", name, Some(10)>>,
       <<"phrase", description, Some(6)>>,
       <<"phrase", "search_terms", Some(8)>>,
       <<"fuzzy-and", name, Some(4)>>,
       <<"fuzzy-and", "search_terms", Some(5)>>,
       <<"fuzzy-and", description, Some(3)>>,
       <<"fuzzy-or", description, Some(2)>>,
       <<"fuzzy-or", "search_terms", Some(1)>>,
       <<"fuzzy-or", "optional_terms", None>> >>

\* the nine with fuzzy-OR(name) boost 2 put between the seventh and eighth
TenClauses(name, description) ==
    SubSeq(NineClauses(name, description), 1, 7)
        \o << <<"fuzzy-or", name, Some(2)>> >>
        \o SubSeq(NineClauses(name, description), 8, 9)

-----------------------------------------------------------------------------
(* Claims on the Query Builder, checked under SpecBuild *)

\* C4 as stated: both builders emit exactly the nine should-clauses, in the
\* fixed order and with the fixed boosts, for every query text, fuzziness,
\* prefix_length and concept scope; the variable list is the concept list
\* with name/description renamed to element_name/element_desc.
C4_NineClausesBoth ==
    /\ build.op = "_get_concepts_query" =>
          Shapes(build.body.query.bool.should) = NineClauses("name", "description")
    /\ build.op = "_get_var_query" =>
          Shapes(build.body.query.bool.should)
              = NineClauses("element_name", "element_desc")

\* C4 amended: the concept builder emits the nine clauses; the variable
\* builder emits ten, the nine renamed plus fuzzy-OR(element_name) boost 2
\* as its eighth; both lists are the same for every input, and every clause
\* carries the call's query text, fuzziness and prefix_length.
C4_NineAndTen ==
    /\ build.op = "_get_concepts_query" =>
          /\ Shapes(build.body.query.bool.should)
                = NineClauses("name", "description")
          /\ CarriesInputs(build.body.query.bool.should, build)
    /\ build.op = "_get_var_query" =>
          /\ Shapes(build.body.query.bool.should)
                = TenClauses("element_name", "element_desc")
          /\ CarriesInputs(build.body.query.bool.should, build)

\* the empty query text with no concept scope has been compiled by the
\* variable builder
C4_Witness ==
    /\ build.op = "_get_var_query"
    /\ build.query = <<>>
    /\ build.concept = ""
    /\ Len(build.body.query.bool.should) = 10

OperatorChars == {"*", "\"", "+", "-"}

\* C5: the body search_concepts sends is the simple_query_string form
\* (fields name, description, search_terms; default_operator "and") exactly
\* when the query text contains one of * " + -, and the weighted
\* should-clause form otherwise.
C5_SimpleIffOperatorChar ==
    build.op = "search_concepts" =>
        LET q == build.body.query
            simple == "simple_query_string" \in DOMAIN q
        IN  /\ simple <=> \E i \in 1..Len(build.query) :
                              build.query[i] \in OperatorChars
            /\ simple =>
                  /\ DOMAIN q = {"simple_query_string"}
                  /\ q.simple_query_string.query = build.query
                  /\ q.simple_query_string.fields
                        = <<"name", "description", "search_terms">>
                  /\ q.simple_query_string.default_operator = "and"
            /\ ~simple =>
                  /\ DOMAIN q = {"bool"}
                  /\ Len(q.bool.should) = 9

\* a query text whose only operator character is - took the simple path
C5_Witness ==
    /\ build.op = "search_concepts"
    /\ build.query = <<"a", "-">>
    /\ "simple_query_string" \in DOMAIN build.body.query

-----------------------------------------------------------------------------
(* Claims on the Result Reshaper, checked under SpecReshape *)

Returned == mr.phase = "returned"

\* the distinct members of s, in the order of their first occurrence
FirstArrivals(s) ==
    LET F[i \in 0..Len(s)] ==
            IF i = 0 THEN <<>>
            ELSE IF \E j \in 1..(i - 1) : s[j] = s[i] THEN F[i - 1]
            ELSE Append(F[i - 1], s[i])
    IN  F[Len(s)]

HitTypes(hits) == [i \in 1..Len(hits) |-> hits[i]._source.data_type]

CategoryRequested(data_type) == data_type # None /\ data_type # Some("")

\* the returned mapping without its total_items entry
Categories(value) == SelectSeq(value, LAMBDA kv : kv[1] # "total_items")

\* C2 as stated: on a non-empty hit sequence _make_result returns normally
\* for every category filter, with total_items = totalCount.count attached
\* to what it returns, also when the requested category is among the hits.
C2_AlwaysReturnsWithTotal ==
    (Returned /\ mr.hits # <<>>) =>
        /\ mr.out.raised = None
        /\ OHas(mr.out.value, "total_items")
        /\ OGet(mr.out.value, "total_items") = mr.total_items.count

\* round(x, 6) on a score held in units of 10^-7
Round6(x) == ((x + 5) \div 10) * 10

\* C6 as stated: with scored = TRUE every element of the returned structure
\* has a score field holding its hit's score rounded to 6 places, and with
\* scored = FALSE no element has one.
C6_ScoreAttachedWhenScored ==
    (Returned /\ mr.out.raised = None) =>
        \A c \in 1..Len(Categories(mr.out.value)) :
        \A g \in 1..Len(Categories(mr.out.value)[c][2]) :
        \A k \in 1..Len(Categories(mr.out.value)[c][2][g].elements) :
            LET e == Categories(mr.out.value)[c][2][g].elements[k]
            IN  IF mr.scored
                THEN /\ "score" \in DOMAIN e
                     /\ \E i \in 1..Len(mr.hits) :
                           /\ mr.hits[i]._source.element_id = e.id
                           /\ e.score = Round6(mr.hits[i]._score)
                ELSE "score" \notin DOMAIN e

\* element e was built from hit h
ElementOf(e, h) ==
    /\ e.id = h._source.element_id
    /\ e.name = h._source.element_name
    /\ e.description = h._source.element_desc
    /\ e.e_link = h._source.element_action

\* C7: with no category filter and a non-empty hit sequence, every category
\* among the hits maps to a list with one GroupEntry per distinct
\* collection_id of that category, in order of first arrival and with
\* c_link/c_name of the first hit of the pair; a GroupEntry's elements are
\* the hits of its pair in arrival order, one per hit, duplicates included,
\* so the elements number as many as the hits.
C7_GroupedInArrivalOrder ==
    (Returned /\ mr.hits # <<>> /\ ~CategoryRequested(mr.data_type)) =>
        LET cats == Categories(mr.out.value)
            OfType(t) == SelectSeq(mr.hits, LAMBDA h : h._source.data_type = t)
            OfPair(t, c) == SelectSeq(OfType(t),
                                      LAMBDA h : h._source.collection_id = c)
            ElementCount(groups) ==
                LET N[g \in 0..Len(groups)] ==
                        IF g = 0 THEN 0
                        ELSE N[g - 1] + Len(groups[g].elements)
                IN  N[Len(groups)]
            Total[c \in 0..Len(cats)] ==
                IF c = 0 THEN 0 ELSE Total[c - 1] + ElementCount(cats[c][2])
        IN  /\ mr.out.raised = None
            /\ [c \in 1..Len(cats) |-> cats[c][1]]
                  = FirstArrivals(HitTypes(mr.hits))
            /\ \A c \in 1..Len(cats) :
                  LET t == cats[c][1]
                      groups == cats[c][2]
                  IN  /\ [g \in 1..Len(groups) |-> groups[g].c_id]
                            = FirstArrivals([i \in 1..Len(OfType(t)) |->
                                  OfType(t)[i]._source.collection_id])
                      /\ \A g \in 1..Len(groups) :
                            LET hs == OfPair(t, groups[g].c_id)
                            IN  /\ groups[g].c_link = hs[1]._source.collection_action
                                /\ groups[g].c_name = hs[1]._source.collection_name
                                /\ Len(groups[g].elements) = Len(hs)
                                /\ \A k \in 1..Len(hs) :
                                      ElementOf(groups[g].elements[k], hs[k])
            /\ Total[Len(cats)] = Len(mr.hits)

\* three hits of one (category, collection) pair were reshaped without a
\* filter: the first and third are the same element, the second carries
\* another collection name
C7_Witness ==
    /\ Returned
    /\ ~CategoryRequested(mr.data_type)
    /\ mr.hits = <<Hit("phenotype", "COLL1", 1), Hit("phenotype", "COLL1", 2),
                   Hit("phenotype", "COLL1", 1)>>
    /\ mr.out.raised = None
    /\ Len(Categories(mr.out.value)[1][2][1].elements) = 3

\* C8: _make_result returns exactly {total_items: N}, and raises nothing,
\* (a) on an empty hit sequence, for any filter and scored flag, and (b) on
\* a non-empty one when the requested category matches no hit's data_type.
C8_OnlyTotalItems ==
    (/\ Returned
     /\ \/ mr.hits = <<>>
        \/ /\ CategoryRequested(mr.data_type)
           /\ \A i \in 1..Len(mr.hits) :
                 mr.hits[i]._source.data_type # mr.data_type[1])
    => /\ mr.out.raised = None
       /\ mr.out.value = << <<"total_items", mr.total_items.count>> >>

\* hits of two categories were reshaped under a filter naming a third
C8_Witness ==
    /\ Returned
    /\ mr.data_type = Some("genotype")
    /\ Len(mr.hits) = 2
    /\ mr.hits[1]._source.data_type # mr.hits[2]._source.data_type
    /\ mr.total_items.count = 5
    /\ mr.out.value = << <<"total_items", 5>> >>

-----------------------------------------------------------------------------
(* Claims on the facade calls, checked under Spec *)

Finished(c) == pc[c] \in {"returned", "raised"}

KindsSent(c) == [i \in 1..Len(sent[c]) |-> sent[c][i].kind]

\* the clauses of a bool clause group, whatever list they sit in
ClausesOf(group) ==
    UNION {{group[k][j] : j \in 1..Len(group[k])} :
              k \in DOMAIN group \cap {"must", "should", "filter", "must_not"}}

\* C1: when search_concepts is called with a list of types, the body of its
\* count request has no aggs and no post_filter key, and its filter clause
\* group holds both wildcard existence checks of the original filter and
\* the term clause of every requested type.
C1_CountBodyIsUnion ==
    \A c \in Calls :
        (inp[c].op = "search_concepts" /\ inp[c].types # None) =>
            \A i \in 1..Len(sent[c]) :
                sent[c][i].kind = "count" =>
                    LET body == sent[c][i].body
                        clauses == ClausesOf(body.query.bool.filter.bool)
                    IN  /\ "aggs" \notin DOMAIN body
                        /\ "post_filter" \notin DOMAIN body
                        /\ [wildcard |-> [description |-> "?*"]] \in clauses
                        /\ [wildcard |-> [name |-> "?*"]] \in clauses
                        /\ \A j \in 1..Len(inp[c].types[1]) :
                              [term |-> [type |-> [value |-> inp[c].types[1][j]]]]
                                  \in clauses

\* a concept search for the type list ["disease"] has sent its count request
C1_Witness ==
    \E c \in Calls :
        /\ inp[c].op = "search_concepts"
        /\ inp[c].types = Some(<<"disease">>)
        /\ KindsSent(c) = <<"search", "count">>

Min(a, b) == IF a < b THEN a ELSE b

DocsReturned(c) == result[c].value.result.hits.hits

\* C3 as stated: dump_concepts returns all L scanned documents when size is
\* None, none when size = 0, and the first min(n, L) when size = n > 0.
C3_ThreeWayCutoff ==
    \A c \in Calls :
        (inp[c].op = "dump_concepts" /\ pc[c] = "returned") =>
            LET size == inp[c].size
                stream == resp[c].stream
            IN  DocsReturned(c) =
                    IF size = None THEN stream
                    ELSE IF size[1] = 0 THEN <<>>
                    ELSE SubSeq(stream, 1, Min(size[1], Len(stream)))

\* C3 amended: dump_concepts returns all L scanned documents when size is
\* None and also when size = 0, and the first min(n, L) when size = n > 0.
C3_ZeroIsNoCutoff ==
    \A c \in Calls :
        (inp[c].op = "dump_concepts" /\ pc[c] = "returned") =>
            LET size == inp[c].size
                stream == resp[c].stream
            IN  DocsReturned(c) =
                    IF size = None \/ size = Some(0) THEN stream
                    ELSE SubSeq(stream, 1, Min(size[1], Len(stream)))

\* a dump with size = 0 over a stream of two or more documents has returned
C3_Witness ==
    \E c \in Calls :
        /\ inp[c].op = "dump_concepts"
        /\ inp[c].size = Some(0)
        /\ pc[c] = "returned"
        /\ Len(resp[c].stream) >= 2
        /\ Len(DocsReturned(c)) = Len(resp[c].stream)

IsPrefix(s, t) == Len(s) <= Len(t) /\ s = SubSeq(t, 1, Len(s))

\* the requests a call with inputs i sends when it runs alone
RequestsAlone(i) ==
    CASE i.op = "search_concepts" ->
            LET body == ConceptSearchBody(i.query, i.fuzziness,
                                          i.prefix_length, i.types)
                forCount == ReconcileForCount(body)
            IN  <<SearchRequest(Some("concepts_index"), body,
                                Some(i.offset), i.size)>>
                \o (IF forCount.raised = None
                    THEN <<CountRequest(Some("concepts_index"), forCount.body)>>
                    ELSE <<>>)
      [] i.op = "search_variables" ->
            LET body == _get_var_query(i.concept, i.fuzziness,
                                       i.prefix_length, i.query)
            IN  <<CountRequest(IF i.index = None THEN Some("variables_index")
                               ELSE i.index, body),
                  SearchRequest(Some("variables_index"), body,
                                Some(i.offset), i.size)>>
      [] i.op = "search_vars_unscored" ->
            LET body == _get_var_query(i.concept, i.fuzziness,
                                       i.prefix_length, i.query)
            IN  <<CountRequest(Some("variables_index"), body),
                  ScanRequest(None, body)>>
      [] i.op = "search_kg" ->
            LET body == KgBody(i.unique_id, i.query, i.fuzziness,
                               i.prefix_length)
            IN  <<CountRequest(Some("kg_index"), body),
                  SearchRequest(Some("kg_index"), body, Some(i.offset), i.size)>>
      [] i.op = "search_study" ->
            LET body == StudyBody(i.study_id, i.study_name)
            IN  <<CountRequest(Some("variables_index"), body),
                  SearchRequest(Some("variables_index"), body,
                                Some(i.offset), i.size)>>
      [] i.op = "search_program" ->
            <<SearchRequest(Some("variables_index"),
                            ProgramBody(i.program_name), Some(i.offset), i.size)>>
      [] i.op = "dump_concepts" ->
            <<PingRequest, CountRequest(Some(i.index), DumpBody),
              ScanRequest(Some(i.index), DumpBody)>>

\* the outcome of a call with inputs i that ran alone and got replies r
OutcomeAlone(i, r) ==
    CASE i.op = "search_concepts" ->
            IF "count" \in DOMAIN r THEN ConceptsResult(r.search, r.count)
            ELSE Raise("KeyError")
      [] i.op = "search_variables" ->
            _make_result(i.data_type,
                         IF "hits" \in DOMAIN r.search THEN r.search.hits.hits
                         ELSE <<>>,
                         r.count, TRUE)
      [] i.op = "search_vars_unscored" ->
            _make_result(i.data_type, r.stream, r.count, FALSE)
      [] i.op \in {"search_kg", "search_study"} ->
            Return(Update(r.search, [total_items |-> r.count.count]))
      [] i.op = "search_program" -> ProgramResult(r.search)
      [] i.op = "dump_concepts" ->
            Return(DumpResult(
                IF i.size = None \/ i.size = Some(0) THEN r.stream
                ELSE SubSeq(r.stream, 1, Min(i.size[1], Len(r.stream))),
                r.count))

\* C9: whatever the interleaving of the two calls at their awaits, each call
\* sends the request bodies, and ends with the outcome, that its own inputs
\* and the replies it received determine when it runs alone.
C9_CallsDoNotInterfere ==
    \A c \in Calls :
        pc[c] # "idle" =>
            /\ IsPrefix(sent[c], RequestsAlone(inp[c]))
            /\ Finished(c) =>
                  /\ sent[c] = RequestsAlone(inp[c])
                  /\ result[c] = OutcomeAlone(inp[c], resp[c])

\* two concept searches with type lists are in flight: one awaits its
\* search reply, the other has already stripped and folded its own body
C9_Witness ==
    \E c, d \in Calls :
        /\ c # d
        /\ inp[c].op = "search_concepts" /\ inp[c].types # None
        /\ inp[d].op = "search_concepts" /\ inp[d].types # None
        /\ pc[c] = "concepts_search"
        /\ pc[d] = "concepts_count"
        /\ "aggs" \in DOMAIN heap[loc[c].search_body]
        /\ "aggs" \notin DOMAIN heap[loc[d].search_body]

Before(kinds, first, second) ==
    \A i \in 1..Len(kinds) :
        kinds[i] = second => \E j \in 1..(i - 1) : kinds[j] = first

BothCompleted(c) ==
    /\ \E i \in 1..Len(sent[c]) : sent[c][i].kind = "count"
    /\ \E i \in 1..Len(sent[c]) : sent[c][i].kind = "search"
    /\ {"count", "search"} \subseteq DOMAIN resp[c]

\* C10 as stated: in concept, variable, knowledge-graph and study search
\* the count request is issued before the search request, and both have
\* completed when the call returns.
C10_CountBeforeSearch ==
    \A c \in Calls :
        inp[c].op \in {"search_concepts", "search_variables",
                       "search_kg", "search_study"} =>
            /\ Before(KindsSent(c), "count", "search")
            /\ pc[c] = "returned" => BothCompleted(c)

\* C10 amended: variable, knowledge-graph and study search issue the count
\* request before the search request; concept search issues the search
\* request first and the count request after the search reply; in all four
\* both requests have completed when the call returns.
C10_OrderPerCall ==
    \A c \in Calls :
        /\ inp[c].op \in {"search_variables", "search_kg", "search_study"} =>
              /\ Before(KindsSent(c), "count", "search")
              /\ pc[c] = "returned" => BothCompleted(c)
        /\ inp[c].op = "search_concepts" =>
              /\ Before(KindsSent(c), "search", "count")
              /\ (\E i \in 1..Len(sent[c]) : sent[c][i].kind = "count")
                    => "search" \in DOMAIN resp[c]
              /\ pc[c] = "returned" => BothCompleted(c)

\* a concept search and a knowledge-graph search have both returned
C10_Witness ==
    \E c, d \in Calls :
        /\ inp[c].op = "search_concepts" /\ pc[c] = "returned"
        /\ KindsSent(c) = <<"search", "count">>
        /\ inp[d].op = "search_kg" /\ pc[d] = "returned"
        /\ KindsSent(d) = <<"count", "search">>

\* the reply r has no bucket list under aggregations.name
LacksBucket(r, name) ==
    \/ "aggregations" \notin DOMAIN r
    \/ name \notin DOMAIN r.aggregations
    \/ "buckets" \notin DOMAIN r.aggregations[name]

\* the aggregation a coroutine reads from its search reply
BucketRead(op) ==
    IF op = "search_concepts" THEN "type-count" ELSE "unique_collection_ids"

\* C11: once search_concepts or search_program has received a search reply
\* that lacks the aggregation bucket it reads (type-count, respectively
\* unique_collection_ids), the call never returns a result: when it ends,
\* it ends by raising an error to its caller.
C11_MissingBucketRaises ==
    \A c \in Calls :
        (/\ inp[c].op \in {"search_concepts", "search_program"}
         /\ "search" \in DOMAIN resp[c]
         /\ LacksBucket(resp[c].search, BucketRead(inp[c].op)))
        => /\ pc[c] # "returned"
           /\ Finished(c) =>
                 /\ pc[c] = "raised"
                 /\ result[c].raised = Some("KeyError")
           /\ inp[c].op = "search_program" => Finished(c)

\* a concept search got a reply without aggregations, then its count
\* reply, and raised; a program search got aggregations without
\* unique_collection_ids and raised
C11_Witness ==
    \E c, d \in Calls :
        /\ inp[c].op = "search_concepts"
        /\ {"search", "count"} \subseteq DOMAIN resp[c]
        /\ "aggregations" \notin DOMAIN resp[c].search
        /\ pc[c] = "raised"
        /\ inp[d].op = "search_program"
        /\ "search" \in DOMAIN resp[d]
        /\ "aggregations" \in DOMAIN resp[d].search
        /\ "unique_collection_ids" \notin DOMAIN resp[d].search.aggregations
        /\ pc[d] = "raised"

\* C12 as stated: a concept search whose query text has an operator
\* character and whose types are a list still reconciles its body for
\* counting: after the search reply it has not raised, and it has sent a
\* count request whose body has no aggs and no post_filter and whose query
\* applies the term clause of every requested type.
C12_SimplePathStillCounts ==
    \A c \in Calls :
        (/\ inp[c].op = "search_concepts"
         /\ inp[c].types # None
         /\ \E i \in 1..Len(inp[c].query) : inp[c].query[i] \in OperatorChars
         /\ "search" \in DOMAIN resp[c])
        => /\ ~(pc[c] = "raised" /\ "count" \notin DOMAIN resp[c])
           /\ \E i \in 1..Len(sent[c]) :
                 /\ sent[c][i].kind = "count"
                 /\ "aggs" \notin DOMAIN sent[c][i].body
                 /\ "post_filter" \notin DOMAIN sent[c][i].body
                 /\ "bool" \in DOMAIN sent[c][i].body.query
                 /\ "filter" \in DOMAIN sent[c][i].body.query.bool
                 /\ \A j \in 1..Len(inp[c].types[1]) :
                       [term |-> [type |-> [value |-> inp[c].types[1][j]]]]
                           \in ClausesOf(sent[c][i].body.query.bool.filter.bool)

\* C13 as stated: all requests of one variable-search call, the count and
\* the search of search_variables, the count and the scan of
\* search_vars_unscored, name the same index and carry the same query body.
C13_CountAndHitsSameIndex ==
    \A c \in Calls :
        inp[c].op \in {"search_variables", "search_vars_unscored"} =>
            \A i, j \in 1..Len(sent[c]) :
                /\ sent[c][i].index = sent[c][j].index
                /\ sent[c][i].body = sent[c][j].body

====
